---- MODULE Spec2Model ----
(***************************************************************************)
(* Identity-resolution -> role-assumption -> query-execution pipeline of   *)
(* the Lake Formation access-control lambdas.  One request is one run of   *)
(* the handler; each action is the code between two awaits.                *)
(***************************************************************************)
EXTENDS Integers, Sequences, FiniteSets, TLC

VARIABLES
    event,        \* the inbound request: headers, identity, grant fields, body
    config,       \* what getConfig found in the environment
    pc,           \* position of the handler (the await it is suspended at)
    variant,      \* which API-key resolver the deployment wires in
    authMethod,   \* handler local authMethod
    roleArn,      \* handler local roleArn / mapping.roleArn
    username,     \* handler local username / authenticate() local userName
    userGroups,   \* handler local userGroups
    credentials,  \* handler local credentials (assumed credential set)
    secrets,      \* findSecretByFieldValue local: the list the vault returned
    scanIdx,      \* findSecretByFieldValue: index of the candidate being read
    secretName,   \* name of the matched secret
    matchedKey,   \* embedded apiKey of the matched secret's payload
    fetched,      \* the candidates whose payload was requested, in order, with the outcome
    mapKey,       \* key of the mapping-store read
    failedRead,   \* a collaborator read of the resolver failed as unreachable
    calls,        \* number of calls made to each collaborator operation
    polls,        \* status reads made by the current wait
    jobId,        \* QueryExecutionId of the submitted job
    jobState,     \* state of the remote job, owned by the query service
    lastStatus,   \* last state a status read returned
    elapsedMs,    \* Date.now() - startTime at the next status read
    firstLat,     \* latency of the first status read
    laterSlow,    \* later status reads that had a latency
    onlyRunning,  \* every status read so far returned RUNNING
    timedOut,     \* waitForQueryCompletion raised the timeout error
    nextToken,    \* getQueryResults local nextToken
    results,      \* getQueryResults local results
    response,     \* what the handler returned
    stsReply,     \* the reply of the authority to the last AssumeRole call
    queryString,  \* QueryString of the StartQueryExecution call
    usedCredentials, \* the credential sets the query-service clients were built with
    pages,        \* the result pages the query service holds for the job
    cursors,      \* the NextToken of each GetQueryResults request, in order
    vault,        \* the secrets the vault holds that pass the list filters, in list order
    lateTerminal, \* the wait ended on a terminal state read after the budget had run out
    durationArg,  \* the durationSeconds argument of the assumeRole call
    stsRequest,   \* the input of the last AssumeRoleCommand sent
    table,        \* the mapping table: its hash key attribute and its items
    written,      \* the mappings storeDynamoDBMapping was called with, in order (no SecretName: refused)
    lookup,       \* what the last getRoleBySecretName call ended with
    req,          \* the caller identity of each concurrent invocation
    ipc,          \* position of each concurrent invocation
    frames,       \* the storage the locals of the invocations live in, by scope
    jobs,         \* the jobs the query service holds, in submission order
    out           \* what each concurrent invocation returned

(* The state of one run of the handler *)
handlerVars == <<event, config, pc, variant, authMethod, roleArn, username, userGroups,
                 credentials, secrets, scanIdx, secretName, matchedKey, fetched,
                 mapKey, failedRead, calls, polls, jobId, jobState, lastStatus,
                 elapsedMs, firstLat, laterSlow, onlyRunning, timedOut, nextToken,
                 results, response, stsReply, queryString, usedCredentials, pages,
                 cursors, vault, lateTerminal, durationArg, stsRequest>>

(* The state of the provisioning of the mapping table *)
provisionVars == <<table, written, lookup>>

(* The state of several invocations of the handler running at once *)
concurrentVars == <<req, ipc, frames, jobs, out>>

vars == <<handlerVars, provisionVars, concurrentVars>>

-----------------------------------------------------------------------------
(* Bounds of the model *)

MaxSecrets == 2
MaxGroups == 1
MaxPages == 2
MaxSlowReads == 1
MaxQueuedReads == 1
SmallLatencyMs == 1
HugeLatencyMs == 61000

(* Program constants *)

maxWaitSeconds == 60
PollIntervalMs == 1000
DefaultLimit == 100
MaxResults == 20
DefaultDurationSeconds == 3600

None == "none"

-----------------------------------------------------------------------------
(* Values.  Strings that the code compares, slices or builds are sequences *)
(* of characters or of parts, so that equality, prefix and suffix differ.  *)

k1 == <<"k", "1">>
K1 == <<"K", "1">>
kPre == <<"k">>
k1x == <<"k", "1", "x">>
Absent == <<>>

Truthy(s) == s # Absent
TruthyStr(s) == s # ""

environment == "dev"
databaseName == "db"

lfDevRoleArn == "arn:role/lf-dev"
lfSuperRoleArn == "arn:role/lf-super"

SecretNameOf(label, env) == <<"lf-apikey-", label, "-", env>>

(* The secrets the vault may hold: the list entry's Name and the payload   *)
(* stored under it (the apiKey and userName fields may be absent).         *)
SecretUniverse ==
    { [Name |-> SecretNameOf("a", "dev"),  apiKey |-> k1,     userName |-> "alice"],
      [Name |-> SecretNameOf("b", "dev"),  apiKey |-> k1x,    userName |-> "bob"],
      [Name |-> SecretNameOf("c", "prod"), apiKey |-> k1,     userName |-> "carol"],
      [Name |-> SecretNameOf("d", "dev"),  apiKey |-> Absent, userName |-> ""],
      [Name |-> SecretNameOf("e", "dev"),  apiKey |-> K1,     userName |-> ""],
      [Name |-> SecretNameOf("f", "dev"),  apiKey |-> k1,     userName |-> "frank"],
      [Name |-> Absent,                    apiKey |-> K1,     userName |-> "nameless"] }

InjectiveSeqs(S, n) ==
    UNION { { s \in [1..m -> S] : \A i, j \in 1..m : i # j => s[i] # s[j] } : m \in 0..n }

VaultLists == InjectiveSeqs(SecretUniverse, MaxSecrets)

(* A vault with more entries than one list call returns: MaxResults        *)
(* secrets of another environment, then the secret of alice                *)
CrowdedVault ==
    [i \in 1..(MaxResults + 1) |->
        IF i <= MaxResults
        THEN [Name |-> SecretNameOf(ToString(i), "prod"), apiKey |-> k1x, userName |-> ""]
        ELSE [Name |-> SecretNameOf("a", "dev"), apiKey |-> k1, userName |-> "alice"]]

Vaults == VaultLists \cup {CrowdedVault}

(* Variant: every page is followed, the whole vault is listed *)
Page_All(all) == all

(* The SecretList of the one ListSecretsCommand sent: the first MaxResults *)
(* entries; the NextToken of the reply is not followed                     *)
Page(all) == SubSeq(all, 1, IF Len(all) < MaxResults THEN Len(all) ELSE MaxResults)

(* Items of the mapping table keyed by secret name.  present = FALSE: the  *)
(* table holds no item for the name; roleArn = "": the item has no roleArn *)
MappingItem(name) ==
    CASE name = SecretNameOf("a", "dev")  -> [present |-> TRUE, roleArn |-> lfDevRoleArn, userName |-> "alice"]
      [] name = SecretNameOf("b", "dev")  -> [present |-> TRUE, roleArn |-> lfSuperRoleArn, userName |-> "bob"]
      [] name = SecretNameOf("c", "prod") -> [present |-> TRUE, roleArn |-> lfSuperRoleArn, userName |-> "carol"]
      [] name = SecretNameOf("e", "dev")  -> [present |-> TRUE, roleArn |-> "", userName |-> "eve"]
      [] OTHER -> [present |-> FALSE, roleArn |-> "", userName |-> ""]

(* Items of the table of the direct-lookup deployment, keyed by API key.   *)
DirectItem(apiKey) ==
    CASE apiKey = k1  -> [present |-> TRUE, roleArn |-> lfDevRoleArn]
      [] apiKey = k1x -> [present |-> TRUE, roleArn |-> ""]
      [] OTHER -> [present |-> FALSE, roleArn |-> ""]

Arn(accountId, user) == <<"arn:aws:iam::", accountId, ":user/", user>>

DevUserArn == Arn("441203120895", "lf-lh-dev-user-o-sp5-dev")
SuperUserArn == Arn("441203120895", "lf-lh-super-user-o-sp5-dev")
StrangerArn == Arn("441203120895", "stranger")

IamDevRole == "arn:aws:iam::441203120895:role/lf-lh-dev-user-role-o-sp6-dev"
IamSuperRole == "arn:aws:iam::441203120895:role/lf-lh-super-user-role-o-sp6-dev"

IAM_USER_TO_ROLE_MAP(userArn) ==
    CASE userArn = DevUserArn -> IamDevRole
      [] userArn = SuperUserArn -> IamSuperRole
      [] OTHER -> ""

GroupNames == {"Admins", "Admin", "Developers", "SuperUsers", "DataEngineers"}
GroupSets == { g \in SUBSET GroupNames : Cardinality(g) <= MaxGroups }

-----------------------------------------------------------------------------
(* Requests *)

NoHeaders == [lower |-> Absent, upper |-> Absent]
BasicHeaders == { NoHeaders, [lower |-> k1, upper |-> Absent] }
OtherHeaders == { [lower |-> K1, upper |-> Absent], [lower |-> kPre, upper |-> Absent],
                  [lower |-> k1x, upper |-> Absent], [lower |-> Absent, upper |-> k1] }

NoIdentity == [userArn |-> Absent, accountId |-> "", user |-> ""]
BasicIdentities == { NoIdentity, [userArn |-> DevUserArn, accountId |-> "", user |-> ""] }
OtherIdentities ==
    { [userArn |-> StrangerArn, accountId |-> "", user |-> ""],
      [userArn |-> Absent, accountId |-> "441203120895", user |-> "lf-lh-super-user-o-sp5-dev"],
      [userArn |-> Absent, accountId |-> "441203120895", user |-> ""] }

BasicGrants == { [username |-> "", password |-> ""], [username |-> "u1", password |-> "pw"] }
OtherGrants == { [username |-> "u1", password |-> ""], [username |-> "", password |-> "pw"] }

BasicShapes == { [kind |-> "object", query |-> "", tableName |-> "members", limit |-> 5] }
OtherShapes ==
    { [kind |-> "object", query |-> "SELECT 1", tableName |-> "", limit |-> 0],
      [kind |-> "object", query |-> "SELECT 1", tableName |-> "members", limit |-> 5],
      [kind |-> "object", query |-> "", tableName |-> "", limit |-> 0],
      [kind |-> "object", query |-> "", tableName |-> "members", limit |-> 0],
      [kind |-> "object", query |-> "", tableName |-> "members", limit |-> 1001],
      [kind |-> "object", query |-> "", tableName |-> "members", limit |-> -1],
      [kind |-> "invalid", query |-> "", tableName |-> "", limit |-> 0],
      [kind |-> "null", query |-> "", tableName |-> "", limit |-> 0] }

(* A request departs from the basic request in at most one way: one part  *)
(* with an unusual value, or more than one credential form at once.       *)
Events ==
    { [headers |-> h, identity |-> i, grant |-> g, bearer |-> b, body |-> s] :
        h \in BasicHeaders \cup OtherHeaders, i \in BasicIdentities \cup OtherIdentities,
        g \in BasicGrants \cup OtherGrants, b \in BOOLEAN, s \in BasicShapes \cup OtherShapes }

Forms(e) ==
    (IF e.headers # NoHeaders THEN 1 ELSE 0)
    + (IF e.identity # NoIdentity THEN 1 ELSE 0)
    + (IF e.grant.username # "" \/ e.grant.password # "" THEN 1 ELSE 0)
    + (IF e.bearer THEN 1 ELSE 0)

Departures(e) ==
    (IF e.headers \in OtherHeaders THEN 1 ELSE 0)
    + (IF e.identity \in OtherIdentities THEN 1 ELSE 0)
    + (IF e.grant \in OtherGrants THEN 1 ELSE 0)
    + (IF e.body \in OtherShapes THEN 1 ELSE 0)
    + (IF Forms(e) > 1 THEN 1 ELSE 0)

Requests == { e \in Events : Departures(e) <= 1 }

-----------------------------------------------------------------------------
(* Errors and the response envelope *)

LambdaError(statusCode, message) ==
    [lambda |-> TRUE, statusCode |-> statusCode, message |-> message]

PlainError(message) == [lambda |-> FALSE, statusCode |-> 0, message |-> message]

NoResponse ==
    [statusCode |-> 0, success |-> FALSE, error |-> <<>>, authMethod |-> None,
     query |-> <<>>, rowCount |-> 0, hasData |-> FALSE, data |-> <<>>,
     authenticatedUser |-> "", userGroups |-> {}, lfRole |-> ""]

createErrorResponse(statusCode, message) ==
    [NoResponse EXCEPT !.statusCode = statusCode, !.success = FALSE, !.error = message]

createSuccessResponse(body) == [body EXCEPT !.statusCode = 200]

(* Variant: the status of the caught error is used whatever it is *)
HandlerCatch_StatusOfAny(error) ==
    createErrorResponse(error.statusCode, error.message)

HandlerCatch(error) ==
    IF error.lambda
    THEN createErrorResponse(error.statusCode, error.message)
    ELSE createErrorResponse(500, <<"Internal server error: ">> \o error.message)

MissingAuthMsg ==
    <<"Missing authentication: provide API key, IAM credentials, or username/password">>

-----------------------------------------------------------------------------
(* CredentialClassifier *)

extractApiKey(headers) ==
    IF Truthy(headers.lower) THEN headers.lower
    ELSE IF Truthy(headers.upper) THEN headers.upper
    ELSE Absent

extractIAMUserArn(identity) ==
    IF Truthy(identity.userArn) THEN identity.userArn
    ELSE IF TruthyStr(identity.accountId) /\ TruthyStr(identity.user)
         THEN Arn(identity.accountId, identity.user)
    ELSE Absent

(* Variant: a bearer token also counts as the OAuth credential *)
hasOAuthCredentials_OrBearer(grant) ==
    (TruthyStr(grant.username) /\ TruthyStr(grant.password)) \/ event.bearer

hasOAuthCredentials(grant) == TruthyStr(grant.username) /\ TruthyStr(grant.password)

(* Variant: the grant test is not negated *)
MissingAuthentication_GrantRequired(apiKey, iamUserArn, oauth) ==
    ~Truthy(apiKey) /\ ~Truthy(iamUserArn) /\ oauth

MissingAuthentication(apiKey, iamUserArn, oauth) ==
    ~Truthy(apiKey) /\ ~Truthy(iamUserArn) /\ ~oauth

(* Variant: the API key is tested before the password grant *)
Branch_KeyFirst(apiKey, iamUserArn, oauth) ==
    IF Truthy(apiKey) THEN "API_KEY"
    ELSE IF oauth THEN "OAUTH"
    ELSE "IAM"

Branch(apiKey, iamUserArn, oauth) ==
    IF oauth THEN "OAUTH"
    ELSE IF Truthy(apiKey) THEN "API_KEY"
    ELSE "IAM"

Configs == {"ok", "missingEnv", "noCognito", "noLfRoles"}
Variants == {"authService", "scanService", "directLookup"}

(* getConfig and parseBody, and the first use of the parsed body *)
EntryError(cfg, kind) ==
    IF cfg = "missingEnv"
    THEN PlainError(<<"Missing required environment variables">>)
    ELSE IF kind = "invalid"
    THEN LambdaError(400, <<"Invalid JSON in request body">>)
    ELSE IF kind = "null"
    THEN PlainError(<<"Cannot read properties of null">>)
    ELSE PlainError(<<>>)

getRoleForIAMUser(userArn) ==
    LET role == IAM_USER_TO_ROLE_MAP(userArn)
    IN  IF role = ""
        THEN [ok |-> FALSE, roleArn |-> "",
              error |-> PlainError(<<"IAM user not authorized: ">> \o userArn)]
        ELSE [ok |-> TRUE, roleArn |-> role, error |-> PlainError(<<>>)]

Stay(at) == [pc |-> at, response |-> NoResponse]
Return(resp) == [pc |-> "done", response |-> resp]
Throw(error) == [pc |-> "done", response |-> HandlerCatch(error)]

NoCredentials ==
    [forRole |-> "", returned |-> FALSE, accessKeyId |-> FALSE,
     secretAccessKey |-> FALSE, sessionToken |-> FALSE]

(* The request shape the handler executes: a query wins over a tableName *)
Shape(body) ==
    IF TruthyStr(body.query) THEN "raw"
    ELSE IF TruthyStr(body.tableName) THEN "table"
    ELSE "neither"

(* Variant: the handler assumes the role whatever it holds *)
NeedsAssume_Always(creds) == TRUE

(* Variant: the handler never assumes the role itself *)
NeedsAssume_Never(creds) == FALSE

(* if (!credentials): the handler assumes the role unless the resolver     *)
(* handed it a credential set                                              *)
NeedsAssume(creds) == ~creds.returned

(* The handler once it holds the credentials: the shape of the body        *)
AfterCredentials ==
    IF Shape(event.body) = "neither"
    THEN Throw(LambdaError(400, <<"Missing required parameter: tableName or query">>))
    ELSE Stay("startQuery")

(* The handler once the branch of the credential has resolved the role     *)
AfterResolution(creds) ==
    IF NeedsAssume(creds) THEN Stay("assumeRole") ELSE AfterCredentials

Classify ==
    /\ pc = "start"
    /\ \E cfg \in Configs, v \in Variants :
        LET apiKey == extractApiKey(event.headers)
            iamUserArn == extractIAMUserArn(event.identity)
            oauth == hasOAuthCredentials(event.grant)
            entry == EntryError(cfg, event.body.kind)
            branch == Branch(apiKey, iamUserArn, oauth)
            iam == getRoleForIAMUser(iamUserArn)
            settled == entry.message = <<>> /\ ~MissingAuthentication(apiKey, iamUserArn, oauth)
            next ==
                IF entry.message # <<>> THEN Throw(entry)
                ELSE IF MissingAuthentication(apiKey, iamUserArn, oauth)
                THEN Return(createErrorResponse(401, MissingAuthMsg))
                ELSE IF branch = "OAUTH"
                THEN IF cfg = "noCognito"
                     THEN Return(createErrorResponse(500, <<"OAuth not configured on this endpoint">>))
                     ELSE IF cfg = "noLfRoles"
                     THEN Return(createErrorResponse(500, <<"Lake Formation roles not configured">>))
                     ELSE Stay("authenticateUser")
                ELSE IF branch = "API_KEY"
                THEN Stay(IF v = "directLookup" THEN "directGet" ELSE "listSecrets")
                ELSE IF iam.ok THEN AfterResolution(credentials) ELSE Throw(iam.error)
        IN  /\ pc' = next.pc
            /\ response' = next.response
            /\ authMethod' = IF settled THEN branch ELSE None
            /\ variant' = IF settled /\ branch = "API_KEY" THEN v ELSE None
            /\ roleArn' = IF settled /\ branch = "IAM" THEN iam.roleArn ELSE ""
            /\ config' = IF cfg = "missingEnv" \/ (settled /\ branch = "OAUTH") THEN cfg ELSE "ok"
    /\ UNCHANGED <<event, username, userGroups, credentials, secrets, scanIdx,
                   secretName, matchedKey, fetched, mapKey, failedRead, calls,
                   polls, jobId, jobState, lastStatus, elapsedMs, firstLat,
                   laterSlow, onlyRunning, timedOut, nextToken, results, stsReply, queryString,
                   usedCredentials, pages, cursors,
                   vault, lateTerminal, durationArg, stsRequest, provisionVars, concurrentVars>>

-----------------------------------------------------------------------------
(* TokenRoleMapper: CognitoService *)

Bump(op) == [calls EXCEPT ![op] = @ + 1]

AuthOutcomes == {"ok", "noAuthenticationResult", "NotAuthorizedException", "unreachable"}

(* The error authenticateUser ends with; its catch rewraps whatever the    *)
(* try block threw unless it is named NotAuthorizedException.              *)
authenticateUserError(outcome) ==
    IF outcome = "NotAuthorizedException"
    THEN LambdaError(401, <<"Invalid username or password">>)
    ELSE IF outcome = "noAuthenticationResult"
    THEN LambdaError(500, <<"Authentication error: ", "Authentication failed">>)
    ELSE LambdaError(500, <<"Authentication error: ", "unreachable">>)

AuthenticateUser ==
    /\ pc = "authenticateUser"
    /\ \E outcome \in AuthOutcomes :
        LET next == IF outcome = "ok" THEN Stay("getUserInfo")
                    ELSE Throw(authenticateUserError(outcome))
        IN  /\ pc' = next.pc
            /\ response' = next.response
            /\ failedRead' = (outcome = "unreachable")
    /\ calls' = Bump("idp")
    /\ UNCHANGED <<event, config, variant, authMethod, roleArn, username, userGroups,
                   credentials, secrets, scanIdx, secretName, matchedKey, fetched,
                   mapKey, polls, jobId, jobState, lastStatus,
                   elapsedMs, firstLat, laterSlow, onlyRunning, timedOut,
                   nextToken, results, stsReply, queryString,
                   usedCredentials, pages, cursors,
                   vault, lateTerminal, durationArg, stsRequest, provisionVars, concurrentVars>>

(* Variant: the two role arguments are taken in the other order *)
mapUserToLFRole_Swapped(groups, devRoleArn, superRoleArn) ==
    IF "Admins" \in groups \/ "Admin" \in groups
    THEN devRoleArn
    ELSE superRoleArn

mapUserToLFRole(groups, devRoleArn, superRoleArn) ==
    IF "Admins" \in groups \/ "Admin" \in groups
    THEN superRoleArn
    ELSE devRoleArn

(* What getUserInfo keeps as groups when the group listing fails *)
GroupsAfterFailure == {}

GetUserInfo ==
    /\ pc = "getUserInfo"
    /\ \E userOk \in BOOLEAN, groupsOk \in BOOLEAN, listed \in GroupSets :
        LET groups == IF groupsOk THEN listed ELSE GroupsAfterFailure
            next == IF userOk THEN AfterResolution(credentials)
                    ELSE Throw(LambdaError(500, <<"Failed to retrieve user information: ", "unreachable">>))
        IN  /\ pc' = next.pc
            /\ response' = next.response
            /\ username' = IF userOk THEN "u1" ELSE username
            /\ userGroups' = IF userOk THEN groups ELSE userGroups
            /\ roleArn' = IF userOk
                          THEN mapUserToLFRole(groups, lfDevRoleArn, lfSuperRoleArn)
                          ELSE roleArn
            /\ failedRead' = (~userOk \/ ~groupsOk)
            /\ calls' = [calls EXCEPT !["idp"] = @ + (IF userOk THEN 2 ELSE 1)]
    /\ UNCHANGED <<event, config, variant, authMethod, credentials, secrets, scanIdx,
                   secretName, matchedKey, fetched, mapKey, polls, jobId,
                   jobState, lastStatus, elapsedMs, firstLat, laterSlow,
                   onlyRunning, timedOut, nextToken, results, stsReply, queryString,
                   usedCredentials, pages, cursors,
                   vault, lateTerminal, durationArg, stsRequest, provisionVars, concurrentVars>>

-----------------------------------------------------------------------------
(* SecretScan: SecretsManagerService.findSecretByFieldValue driven by      *)
(* ApiKeyAuthService.authenticate, and ApiKeyService.getRoleForApiKey      *)

EndsWith(name, suffix) ==
    /\ Len(name) >= Len(suffix)
    /\ SubSeq(name, Len(name) - Len(suffix) + 1, Len(name)) = suffix

environmentSuffix == <<"-", environment>>

(* Variant: the environment of the entry is not looked at *)
Examined_AnyEnvironment(entry) == Truthy(entry.Name)

(* The loop skips an entry without a name or of another environment *)
Examined(entry) == Truthy(entry.Name) /\ EndsWith(entry.Name, environmentSuffix)

(* Index of the first entry at or after from that the loop reads, or       *)
(* Len(list) + 1 when the loop runs off the list                           *)
RECURSIVE NextCandidate(_, _)
NextCandidate(list, from) ==
    IF from > Len(list) THEN from
    ELSE IF Examined(list[from]) THEN from
    ELSE NextCandidate(list, from + 1)

(* Variant: the field only has to start with the presented value *)
FieldMatches_StartsWith(payload, fieldValue) ==
    /\ Len(payload.apiKey) >= Len(fieldValue)
    /\ SubSeq(payload.apiKey, 1, Len(fieldValue)) = fieldValue

(* secretValue[fieldName] === fieldValue *)
FieldMatches(payload, fieldValue) == payload.apiKey = fieldValue

(* What the resolver raises for a non-LambdaError thrown inside it *)
ResolverFailure(v) ==
    IF v = "authService"
    THEN LambdaError(500, <<"Authentication failed">>)
    ELSE LambdaError(500, <<"Failed to lookup API key">>)

InvalidApiKey == LambdaError(403, <<"Invalid API key">>)

(* Where the scan stands once the loop reaches index i of list: at the    *)
(* read of the next candidate, or past the loop with or without a match   *)
ScanAt(list, i, matched) ==
    IF NextCandidate(list, i) <= Len(list) THEN Stay("getSecretValue")
    ELSE IF Truthy(matched) THEN Stay("getRoleBySecretName")
    ELSE Throw(InvalidApiKey)

ListSecrets ==
    /\ pc = "listSecrets"
    /\ \E ok \in BOOLEAN, all \in Vaults :
        LET list == Page(all)
            next == IF ok THEN ScanAt(list, 1, Absent) ELSE Throw(ResolverFailure(variant))
        IN  /\ pc' = next.pc
            /\ response' = next.response
            /\ vault' = IF ok THEN all ELSE <<>>
            /\ secrets' = IF ok THEN list ELSE <<>>
            /\ scanIdx' = IF ok THEN NextCandidate(list, 1) ELSE 0
            /\ failedRead' = ~ok
    /\ calls' = Bump("vaultList")
    /\ UNCHANGED <<event, config, variant, authMethod, roleArn, username, userGroups,
                   credentials, secretName, matchedKey, fetched, mapKey, polls,
                   jobId, jobState, lastStatus, elapsedMs, firstLat, laterSlow,
                   onlyRunning, timedOut, nextToken, results, stsReply, queryString,
                   usedCredentials, pages, cursors,
                   lateTerminal, durationArg, stsRequest, provisionVars, concurrentVars>>

GetOutcomes == {"ok", "noSecretString", "unreachable"}

(* The loop is left (return, break) as soon as a payload matches *)
LoopEnds(found) == found

userNameOf(payload) == IF TruthyStr(payload.userName) THEN payload.userName ELSE "unknown"

GetSecretValue ==
    /\ pc = "getSecretValue"
    /\ \E outcome \in GetOutcomes :
        LET entry == secrets[scanIdx]
            apiKey == extractApiKey(event.headers)
            found == outcome = "ok" /\ FieldMatches(entry, apiKey)
            name == IF found THEN entry.Name ELSE secretName
            next == IF LoopEnds(found) THEN Stay("getRoleBySecretName")
                    ELSE ScanAt(secrets, scanIdx + 1, name)
        IN  /\ pc' = next.pc
            /\ response' = next.response
            /\ scanIdx' = IF LoopEnds(found) THEN scanIdx
                          ELSE NextCandidate(secrets, scanIdx + 1)
            /\ secretName' = name
            /\ matchedKey' = IF found THEN entry.apiKey ELSE matchedKey
            /\ username' = IF found THEN userNameOf(entry) ELSE username
            /\ failedRead' = (failedRead \/ outcome = "unreachable")
            /\ fetched' = Append(fetched, [idx |-> scanIdx, outcome |-> outcome])
    /\ calls' = Bump("vaultGet")
    /\ UNCHANGED <<event, config, variant, authMethod, roleArn, userGroups, credentials,
                   secrets, mapKey, polls, jobId, jobState, lastStatus,
                   elapsedMs, firstLat, laterSlow, onlyRunning, timedOut,
                   nextToken, results, stsReply, queryString,
                   usedCredentials, pages, cursors,
                   vault, lateTerminal, durationArg, stsRequest, provisionVars, concurrentVars>>

(* Variant: an item is accepted without looking at its roleArn *)
MappingResult_AnyItem(v, item) ==
    IF ~item.present
    THEN [ok |-> FALSE, error |-> LambdaError(500, <<"Configuration error: missing role mapping">>)]
    ELSE [ok |-> TRUE, error |-> PlainError(<<>>)]

(* What the mapping lookup ends with for the item the store returned *)
MappingResult(v, item) ==
    IF ~item.present
    THEN [ok |-> FALSE, error |-> LambdaError(500, <<"Configuration error: missing role mapping">>)]
    ELSE IF item.roleArn = ""
    THEN [ok |-> FALSE,
          error |-> IF v = "authService"
                    THEN LambdaError(500, <<"Invalid role mapping: missing roleArn">>)
                    ELSE LambdaError(500, <<"Invalid API key mapping">>)]
    ELSE [ok |-> TRUE, error |-> PlainError(<<>>)]

MappingFailure(v) ==
    IF v = "authService"
    THEN LambdaError(500, <<"Failed to lookup role mapping">>)
    ELSE LambdaError(500, <<"Failed to lookup API key">>)

GetRoleBySecretName ==
    /\ pc = "getRoleBySecretName"
    /\ \E ok \in BOOLEAN :
        LET item == MappingItem(secretName)
            got == MappingResult(variant, item)
            next == IF ~ok THEN Throw(MappingFailure(variant))
                    ELSE IF ~got.ok THEN Throw(got.error)
                    ELSE IF variant = "authService" THEN Stay("authAssumeRole")
                    ELSE AfterResolution(credentials)
        IN  /\ pc' = next.pc
            /\ response' = next.response
            /\ roleArn' = IF ok /\ got.ok THEN item.roleArn ELSE roleArn
            /\ failedRead' = (failedRead \/ ~ok)
    /\ mapKey' = secretName
    /\ calls' = Bump("mapGet")
    /\ vault' = <<>>
    /\ secrets' = <<>>
    /\ scanIdx' = 0
    /\ fetched' = <<>>
    /\ UNCHANGED <<event, config, variant, authMethod, username, userGroups, credentials,
                   secretName, matchedKey, polls, jobId, jobState, lastStatus,
                   elapsedMs, firstLat, laterSlow, onlyRunning, timedOut,
                   nextToken, results, stsReply, queryString,
                   usedCredentials, pages, cursors,
                   lateTerminal, durationArg, stsRequest, provisionVars, concurrentVars>>

-----------------------------------------------------------------------------
(* DirectLookup: ApiKeyService.getRoleForApiKey keyed by the API key       *)

DirectResult(item) ==
    IF ~item.present THEN [ok |-> FALSE, error |-> InvalidApiKey]
    ELSE IF item.roleArn = ""
    THEN [ok |-> FALSE, error |-> LambdaError(500, <<"Invalid API key mapping">>)]
    ELSE [ok |-> TRUE, error |-> PlainError(<<>>)]

DirectGet ==
    /\ pc = "directGet"
    /\ \E ok \in BOOLEAN :
        LET apiKey == extractApiKey(event.headers)
            item == DirectItem(apiKey)
            got == DirectResult(item)
            next == IF ~ok THEN Throw(LambdaError(500, <<"Failed to lookup API key">>))
                    ELSE IF got.ok THEN AfterResolution(credentials)
                    ELSE Throw(got.error)
        IN  /\ pc' = next.pc
            /\ response' = next.response
            /\ roleArn' = IF ok /\ got.ok THEN item.roleArn ELSE roleArn
            /\ failedRead' = ~ok
            /\ mapKey' = apiKey
    /\ calls' = Bump("mapGet")
    /\ UNCHANGED <<event, config, variant, authMethod, username, userGroups, credentials,
                   secrets, scanIdx, secretName, matchedKey, fetched, polls,
                   jobId, jobState, lastStatus, elapsedMs, firstLat, laterSlow,
                   onlyRunning, timedOut, nextToken, results, stsReply, queryString,
                   usedCredentials, pages, cursors,
                   vault, lateTerminal, durationArg, stsRequest, provisionVars, concurrentVars>>

-----------------------------------------------------------------------------
(* CredentialBroker: RoleService.assumeRole, and the handler up to the     *)
(* submission of the query                                                 *)

StsOutcomes == {"ok", "noCredentials", "incomplete", "unreachable"}

(* What the authority may answer: nothing (unreachable), a reply without   *)
(* Credentials, or Credentials with any of the three fields set or not     *)
NoReply ==
    [reached |-> FALSE, Credentials |-> FALSE, AccessKeyId |-> FALSE,
     SecretAccessKey |-> FALSE, SessionToken |-> FALSE]

StsReplies ==
    { NoReply, [NoReply EXCEPT !.reached = TRUE] }
    \cup { [reached |-> TRUE, Credentials |-> TRUE, AccessKeyId |-> a,
            SecretAccessKey |-> k, SessionToken |-> t] : a, k, t \in BOOLEAN }

(* Variant: the session token is not looked at *)
HasAllFields_NoSessionToken(creds) == creds.AccessKeyId /\ creds.SecretAccessKey

(* !creds.AccessKeyId || !creds.SecretAccessKey || !creds.SessionToken, negated *)
HasAllFields(creds) == creds.AccessKeyId /\ creds.SecretAccessKey /\ creds.SessionToken

(* How assumeRole ends for a reply *)
StsOutcome(reply) ==
    IF ~reply.reached THEN "unreachable"
    ELSE IF ~reply.Credentials THEN "noCredentials"
    ELSE IF ~HasAllFields(reply) THEN "incomplete"
    ELSE "ok"

assumeRoleError(outcome) ==
    IF outcome = "noCredentials"
    THEN LambdaError(500, <<"Failed to assume role: ", "No credentials returned from AssumeRole">>)
    ELSE IF outcome = "incomplete"
    THEN LambdaError(500, <<"Failed to assume role: ", "Incomplete credentials returned">>)
    ELSE LambdaError(500, <<"Failed to assume role: ", "unreachable">>)

(* The credential set assumeRole returns for a reply *)
CredentialsOf(role, reply) ==
    [forRole |-> role, returned |-> TRUE, accessKeyId |-> reply.AccessKeyId,
     secretAccessKey |-> reply.SecretAccessKey, sessionToken |-> reply.SessionToken]

DefaultSessionName == "lambda-session"

(* An argument the caller leaves out, and one it gives *)
NotGiven == [given |-> FALSE, value |-> 0]
Given(v) == [given |-> TRUE, value |-> v]

(* durationSeconds: number = 3600 *)
durationSecondsOf(arg) == IF arg.given THEN arg.value ELSE DefaultDurationSeconds

(* The input of the AssumeRoleCommand *)
AssumeRoleCommand(role, sessionName, arg) ==
    [RoleArn |-> role,
     RoleSessionName |-> <<"lf-athena-", sessionName>>,
     DurationSeconds |-> durationSecondsOf(arg)]

NoRequest == [RoleArn |-> "", RoleSessionName |-> <<>>, DurationSeconds |-> 0]

(* The session name of the call: authenticate passes userName, the handler *)
(* passes none                                                             *)
sessionNameAt(at, userName) ==
    IF at = "authAssumeRole" THEN userName ELSE DefaultSessionName

(* RoleService.assumeRole, called by ApiKeyAuthService.authenticate (pc    *)
(* authAssumeRole) or by the handler (pc assumeRole)                       *)
AssumeRole ==
    /\ pc \in {"authAssumeRole", "assumeRole"}
    /\ stsRequest' = AssumeRoleCommand(roleArn, sessionNameAt(pc, username), durationArg)
    /\ \E reply \in StsReplies :
        LET outcome == StsOutcome(reply)
            creds == IF outcome = "ok" THEN CredentialsOf(roleArn, reply) ELSE credentials
            next == IF outcome # "ok" THEN Throw(assumeRoleError(outcome))
                    ELSE IF pc = "authAssumeRole" THEN AfterResolution(creds)
                    ELSE AfterCredentials
        IN  /\ pc' = next.pc
            /\ response' = next.response
            /\ credentials' = creds
            /\ stsReply' = reply
    /\ calls' = Bump("sts")
    /\ UNCHANGED <<event, config, variant, authMethod, roleArn, username, userGroups,
                   secrets, scanIdx, secretName, matchedKey, fetched, mapKey,
                   failedRead, polls, jobId, jobState, lastStatus, elapsedMs,
                   firstLat, laterSlow, onlyRunning, timedOut, nextToken,
                   results, queryString, usedCredentials, pages, cursors,
                   vault, lateTerminal, durationArg, provisionVars, concurrentVars>>

-----------------------------------------------------------------------------
(* QueryExecutor: AthenaService *)

limitOf(body) == IF body.limit # 0 THEN body.limit ELSE DefaultLimit

(* Variant: the identifiers are not quoted *)
buildQuery_Unquoted(tableName, limit) ==
    <<"SELECT * FROM ", databaseName, ".", tableName, " LIMIT ", ToString(limit)>>

buildQuery(tableName, limit) ==
    <<"SELECT * FROM \"", databaseName, "\".\"", tableName, "\" LIMIT ", ToString(limit)>>

queryText(body) ==
    IF Shape(body) = "raw" THEN <<body.query>>
    ELSE buildQuery(body.tableName, limitOf(body))

(* The credentials a client of the query service is built with *)
getClient(creds) == creds

SubmitOutcomes == {"ok", "noQueryExecutionId", "unreachable"}

startQueryError(shape, outcome) ==
    LET cause == IF outcome = "noQueryExecutionId" THEN "No QueryExecutionId returned"
                 ELSE "unreachable"
    IN  IF shape = "raw"
        THEN LambdaError(500, <<"Failed to execute query: ", cause>>)
        ELSE LambdaError(500, <<"Failed to start query: ", cause>>)

StartQuery ==
    /\ pc = "startQuery"
    /\ \E outcome \in SubmitOutcomes :
        LET next == IF outcome = "ok" THEN Stay("waitForQueryCompletion")
                    ELSE Throw(startQueryError(Shape(event.body), outcome))
        IN  /\ pc' = next.pc
            /\ response' = next.response
            /\ jobId' = IF outcome = "ok" THEN "q-1" ELSE jobId
            /\ jobState' = IF outcome = "ok" THEN "QUEUED" ELSE jobState
    /\ calls' = Bump("submit")
    /\ elapsedMs' = 0
    /\ queryString' = queryText(event.body)
    /\ usedCredentials' = usedCredentials \cup {getClient(credentials)}
    /\ UNCHANGED <<event, config, variant, authMethod, roleArn, username, userGroups,
                   credentials, secrets, scanIdx, secretName, matchedKey, fetched,
                   mapKey, failedRead, polls, lastStatus, firstLat, laterSlow,
                   onlyRunning, timedOut, nextToken, results, stsReply, pages,
                   cursors,
                   vault, lateTerminal, durationArg, stsRequest, provisionVars, concurrentVars>>

Terminal == {"SUCCEEDED", "FAILED", "CANCELLED"}

IsTerminal(status) == status \in Terminal

(* The states the service may have moved the job to by read number n:      *)
(* forward only; QUEUED is seen by the first MaxQueuedReads reads at most  *)
ServiceMoves(state, n) ==
    IF state = "QUEUED"
    THEN (IF n <= MaxQueuedReads THEN {"QUEUED"} ELSE {}) \cup {"RUNNING"} \cup Terminal
    ELSE IF state = "RUNNING" THEN {"RUNNING"} \cup Terminal
    ELSE {state}

(* Latencies a status read may have: at most MaxSlowReads reads are slow *)
Latencies ==
    IF (IF firstLat > 0 THEN 1 ELSE 0) + laterSlow < MaxSlowReads
    THEN {0, SmallLatencyMs, HugeLatencyMs}
    ELSE {0}

(* Variant: milliseconds compared with the budget in seconds *)
BudgetExceeded_Unscaled(ms) == ms > maxWaitSeconds

(* elapsedSeconds > maxWaitSeconds, with elapsedSeconds = elapsed ms / 1000 *)
BudgetExceeded(ms) == ms > maxWaitSeconds * 1000

(* Variant: the budget is looked at before the state that was read *)
Expired_WhateverState(state, ms) == BudgetExceeded(ms)

(* The timeout is raised for a read that is past the budget and did not    *)
(* return a terminal state: the terminal check comes first                 *)
Expired(state, ms) == ~IsTerminal(state) /\ BudgetExceeded(ms)

(* Variant: the job is stopped when the wait times out *)
TimeoutRequests_Stop(id) == {"StopQueryExecution"}

(* The requests the executor sends for the job when the wait times out *)
TimeoutRequests(id) == {}

(* Variant: only FAILED is refused *)
FetchAllowed_UnlessFailed(status) == status # "FAILED"

(* executeQuery and executeRawQuery fetch results for this status only *)
FetchAllowed(status) == status = "SUCCEEDED"

ReadOutcomes == {"ok", "noStatus", "unreachable"}

waitError(outcome) ==
    IF outcome = "noStatus"
    THEN LambdaError(500, <<"Query execution failed: ", "No query status returned">>)
    ELSE LambdaError(500, <<"Query execution failed: ", "unreachable">>)

(* One iteration of the loop: a status read, the checks on it, the sleep. *)
(* The locals of the wait are released when it returns or raises, except  *)
(* at the timeout, whose log record keeps them.                           *)
PollStatus ==
    /\ pc = "waitForQueryCompletion"
    /\ \E outcome \in ReadOutcomes :
       \E lat \in (IF outcome = "ok" THEN Latencies ELSE {0}),
          state \in (IF outcome = "ok" THEN ServiceMoves(jobState, polls + 1) ELSE {jobState}) :
        LET now == elapsedMs + lat
            expired == outcome = "ok" /\ Expired(state, now)
            leaves == outcome = "ok" /\ IsTerminal(state) /\ ~expired
            sent == IF expired THEN TimeoutRequests(jobId) ELSE {}
            next == IF outcome # "ok" THEN Throw(waitError(outcome))
                    ELSE IF leaves
                    THEN IF FetchAllowed(state) THEN Stay("getQueryResults")
                         ELSE Throw(LambdaError(500, <<"Query failed with status: ", state>>))
                    ELSE IF expired
                    THEN Throw(LambdaError(500, <<"Query execution timeout">>))
                    ELSE Stay("waitForQueryCompletion")
            released == next.pc # "waitForQueryCompletion" /\ ~expired
        IN  /\ pc' = next.pc
            /\ response' = next.response
            /\ jobState' = IF "StopQueryExecution" \in sent THEN "CANCELLED" ELSE state
            /\ calls' = IF "StopQueryExecution" \in sent THEN Bump("stop") ELSE calls
            /\ lateTerminal' = (leaves /\ now > maxWaitSeconds * 1000)
            /\ lastStatus' = IF outcome = "ok" THEN state ELSE lastStatus
            /\ timedOut' = expired
            /\ polls' = IF released THEN 0 ELSE polls + 1
            /\ elapsedMs' = IF released THEN 0
                            ELSE IF expired THEN now
                            ELSE now + PollIntervalMs
            /\ firstLat' = IF released THEN 0 ELSE IF polls = 0 THEN lat ELSE firstLat
            /\ laterSlow' = IF released THEN 0
                            ELSE IF polls > 0 /\ lat > 0 THEN laterSlow + 1
                            ELSE laterSlow
            /\ onlyRunning' = IF released THEN TRUE ELSE onlyRunning /\ state = "RUNNING"
    /\ usedCredentials' = usedCredentials \cup {getClient(credentials)}
    /\ UNCHANGED <<event, config, variant, authMethod, roleArn, username, userGroups,
                   credentials, secrets, scanIdx, secretName, matchedKey, fetched,
                   mapKey, failedRead, jobId, nextToken, results, stsReply,
                   queryString, pages, cursors,
                   vault, durationArg, stsRequest, provisionVars, concurrentVars>>

(* Rows as the query service returns them; Null is a field without a      *)
(* VarCharValue, and a row may come without Data                          *)
Null == "<null>"
RowH == [hasData |-> TRUE, Data |-> <<"id", "name">>]
RowD == [hasData |-> TRUE, Data |-> <<"7", Null>>]
RowE == [hasData |-> FALSE, Data |-> <<>>]

PageChoices == { <<>>, <<RowH>>, <<RowD, RowE>> }

fieldOf(f) == IF f = Null THEN "" ELSE f

rowData(row) ==
    IF row.hasData THEN [i \in 1..Len(row.Data) |-> fieldOf(row.Data[i])] ELSE <<>>

rowsOf(page) == [i \in 1..Len(page) |-> rowData(page[i])]

(* Variant: the rows of a page replace the rows gathered so far *)
Accumulate_LastPage(acc, page) == rowsOf(page)

Accumulate(acc, page) == acc \o rowsOf(page)

(* Variant: every row is counted *)
rowCountOf_Length(rows) == Len(rows)

(* rowCount: results.length - 1, the header row is not counted *)
rowCountOf(rows) == Len(rows) - 1

(* The body the handler answers with once the results are in *)
SuccessBody(rows) ==
    [NoResponse EXCEPT
        !.success = TRUE,
        !.authMethod = authMethod,
        !.query = queryText(event.body),
        !.rowCount = rowCountOf(rows),
        !.hasData = TRUE,
        !.data = rows,
        !.authenticatedUser = IF authMethod = "OAUTH" THEN username ELSE "",
        !.userGroups = IF authMethod = "OAUTH" THEN userGroups ELSE {},
        !.lfRole = IF authMethod = "OAUTH" THEN roleArn ELSE ""]

(* The result sets the query service may hold for a succeeded job: one to *)
(* MaxPages pages                                                          *)
PageSets == UNION { [1..n -> PageChoices] : n \in 1..MaxPages }

(* The cursor the service hands out for page i, and the page a cursor      *)
(* names; a request without a cursor gets the first page                   *)
CursorOf(i) == ToString(i)

PageIndex(cursor) ==
    IF cursor = "" THEN 1 ELSE CHOOSE i \in 1..(MaxPages + 1) : CursorOf(i) = cursor

(* The reply of the service to a GetQueryResults request with that cursor *)
ServePage(set, cursor) ==
    LET i == PageIndex(cursor)
    IN  [Rows |-> set[i],
         NextToken |-> IF i < Len(set) THEN CursorOf(i + 1) ELSE ""]

(* while (nextToken) *)
MorePages(token) == TruthyStr(token)

(* One round of the do-while loop: one page request *)
GetQueryResults ==
    /\ pc = "getQueryResults"
    /\ \E ok \in BOOLEAN, set \in (IF calls["fetch"] = 0 THEN PageSets ELSE {pages}) :
        LET reply == ServePage(set, nextToken)
            rows == Accumulate(results, reply.Rows)
            next == IF ~ok
                    THEN Throw(LambdaError(500, <<"Failed to retrieve results: ", "unreachable">>))
                    ELSE IF MorePages(reply.NextToken) THEN Stay("getQueryResults")
                    ELSE Return(createSuccessResponse(SuccessBody(rows)))
        IN  /\ pc' = next.pc
            /\ response' = next.response
            /\ results' = IF ok THEN rows ELSE results
            /\ nextToken' = IF ok THEN reply.NextToken ELSE nextToken
            /\ pages' = set
    /\ lateTerminal' = FALSE
    /\ calls' = Bump("fetch")
    /\ cursors' = Append(cursors, nextToken)
    /\ usedCredentials' = usedCredentials \cup {getClient(credentials)}
    /\ UNCHANGED <<event, config, variant, authMethod, roleArn, username, userGroups,
                   credentials, secrets, scanIdx, secretName, matchedKey, fetched,
                   mapKey, failedRead, polls, jobId, jobState, lastStatus,
                   elapsedMs, firstLat, laterSlow, onlyRunning, timedOut, stsReply,
                   queryString,
                   vault, durationArg, stsRequest, provisionVars, concurrentVars>>

-----------------------------------------------------------------------------
(* The handler, one request *)

NoCalls ==
    [vaultList |-> 0, vaultGet |-> 0, mapGet |-> 0, idp |-> 0, sts |-> 0,
     submit |-> 0, fetch |-> 0, stop |-> 0]

(* The handler suspended at position at of a request e, with the locals   *)
(* role and user and the duration argument arg; nothing else has happened  *)
HandlerState(e, at, role, user, arg) ==
    /\ event = e
    /\ config = None
    /\ pc = at
    /\ variant = None
    /\ authMethod = None
    /\ roleArn = role
    /\ username = user
    /\ userGroups = {}
    /\ credentials = NoCredentials
    /\ secrets = <<>>
    /\ scanIdx = 0
    /\ secretName = Absent
    /\ matchedKey = Absent
    /\ fetched = <<>>
    /\ mapKey = Absent
    /\ failedRead = FALSE
    /\ calls = NoCalls
    /\ polls = 0
    /\ jobId = ""
    /\ jobState = None
    /\ lastStatus = None
    /\ elapsedMs = 0
    /\ firstLat = 0
    /\ laterSlow = 0
    /\ onlyRunning = TRUE
    /\ timedOut = FALSE
    /\ nextToken = ""
    /\ results = <<>>
    /\ response = NoResponse
    /\ stsReply = NoReply
    /\ queryString = <<>>
    /\ usedCredentials = {}
    /\ pages = <<>>
    /\ cursors = <<>>
    /\ vault = <<>>
    /\ lateTerminal = FALSE
    /\ durationArg = arg
    /\ stsRequest = NoRequest

(* No table is provisioned, no invocation runs beside the handler *)
NoTable == [hashKey |-> "", items |-> {}]
NoLookup == [reader |-> None, secretName |-> Absent, outcome |-> None,
             roleArn |-> "", userName |-> ""]

ProvisionIdle ==
    /\ table = NoTable
    /\ written = <<>>
    /\ lookup = NoLookup

ConcurrentIdle ==
    /\ req = <<>>
    /\ ipc = <<>>
    /\ frames = <<>>
    /\ jobs = <<>>
    /\ out = <<>>

(* The handler passes no duration to assumeRole, and neither does          *)
(* ApiKeyAuthService.authenticate                                          *)
Init ==
    /\ \E e \in Requests : HandlerState(e, "start", "", "", NotGiven)
    /\ ProvisionIdle
    /\ ConcurrentIdle

Next ==
    \/ Classify
    \/ AuthenticateUser
    \/ GetUserInfo
    \/ ListSecrets
    \/ GetSecretValue
    \/ GetRoleBySecretName
    \/ DirectGet
    \/ AssumeRole
    \/ StartQuery
    \/ PollStatus
    \/ GetQueryResults

Spec == Init /\ [][Next]_vars

-----------------------------------------------------------------------------
(* RoleService.assumeRole on its own: the function applied to the          *)
(* arguments a caller may pass                                             *)

BasicRequest ==
    [headers |-> NoHeaders, identity |-> NoIdentity,
     grant |-> [username |-> "", password |-> ""], bearer |-> FALSE,
     body |-> [kind |-> "object", query |-> "", tableName |-> "members", limit |-> 5]]

DurationArgs == {NotGiven} \cup { Given(d) : d \in {0, 899, 900, 3600, 43200, 43201} }

BrokerInit ==
    /\ \E at \in {"authAssumeRole", "assumeRole"},
          role \in {lfDevRoleArn, lfSuperRoleArn, IamDevRole},
          user \in {"alice", "unknown"},
          arg \in DurationArgs :
            HandlerState(BasicRequest, at, role, user, arg)
    /\ ProvisionIdle
    /\ ConcurrentIdle

BrokerNext == AssumeRole

BrokerSpec == BrokerInit /\ [][BrokerNext]_vars

-----------------------------------------------------------------------------
(* Provisioning of the mapping table: CustomResourceService writes the     *)
(* mappings, the resolvers read them at request time                       *)

MaxWrites == 2

HandlerIdle == HandlerState(BasicRequest, "idle", "", "", NotGiven)

(* The mappings of the custom resource (SecretName, RoleArn, UserName) *)
Mappings ==
    { [SecretName |-> n, RoleArn |-> r, UserName |-> u] :
        n \in {SecretNameOf("a", "dev"), SecretNameOf("b", "dev")},
        r \in {lfDevRoleArn, lfSuperRoleArn},
        u \in {"alice", "bob"} }

(* The attributes an item may carry; Absent or "" is an attribute that is  *)
(* not set                                                                 *)
NoAttributes ==
    [secretName |-> Absent, secret_name |-> Absent, roleArn |-> "",
     userName |-> "", user_name |-> ""]

HashKeys == {"secretName", "secret_name"}

(* The value an item or a key has for the hash key attribute *)
KeyValue(hashKey, item) ==
    IF hashKey = "secretName" THEN item.secretName ELSE item.secret_name

(* PutItem: an item without the hash key attribute is refused, an item     *)
(* with the key of a stored one replaces it                                *)
PutItem(t, item) ==
    IF KeyValue(t.hashKey, item) = Absent
    THEN [ok |-> FALSE, table |-> t]
    ELSE [ok |-> TRUE,
          table |-> [t EXCEPT !.items =
              { i \in @ : KeyValue(t.hashKey, i) # KeyValue(t.hashKey, item) } \cup {item}]]

(* GetItem: a key that is not the hash key attribute of the table is       *)
(* refused; otherwise the item with that key, if any                       *)
GetItem(t, keyAttr, value) ==
    IF keyAttr # t.hashKey
    THEN [ok |-> FALSE, found |-> FALSE, Item |-> NoAttributes]
    ELSE LET hits == { i \in t.items : KeyValue(t.hashKey, i) = value }
         IN  IF hits = {} THEN [ok |-> TRUE, found |-> FALSE, Item |-> NoAttributes]
             ELSE [ok |-> TRUE, found |-> TRUE, Item |-> CHOOSE i \in hits : TRUE]

(* The Item of the PutItemCommand of storeDynamoDBMapping *)
MappingItemOf(secret, role, user) ==
    [NoAttributes EXCEPT !.secretName = secret, !.roleArn = role, !.userName = user]

storeDynamoDBMapping ==
    /\ table.hashKey \in HashKeys
    /\ Len(written) < MaxWrites
    /\ \E m \in Mappings :
        LET put == PutItem(table, MappingItemOf(m.SecretName, m.RoleArn, m.UserName))
        IN  /\ table' = put.table
            /\ written' = Append(written, [m EXCEPT !.SecretName = IF put.ok THEN @ ELSE Absent])
    /\ lookup' = NoLookup
    /\ UNCHANGED <<handlerVars, concurrentVars>>

(* The attribute each reader puts in the Key of its GetItemCommand *)
MappingKeyAttr(reader) ==
    IF reader = "ApiKeyMappingService" THEN "secret_name" ELSE "secretName"

(* The attribute each reader takes the user name from; ApiKeyService       *)
(* reads none                                                              *)
UserNameOfItem(reader, item) ==
    IF reader = "ApiKeyMappingService" THEN item.user_name ELSE ""

Readers == {"ApiKeyMappingService", "ApiKeyService"}

(* ApiKeyMappingService.getRoleBySecretName, and the lookup of             *)
(* ApiKeyService.getRoleForApiKey for the matched secret name              *)
getRoleBySecretName ==
    /\ table.hashKey \in HashKeys
    /\ \E reader \in Readers, m \in Mappings :
        LET got == GetItem(table, MappingKeyAttr(reader), m.SecretName)
            result == IF ~got.ok THEN "failed"
                      ELSE IF ~got.found THEN "missing"
                      ELSE IF got.Item.roleArn = "" THEN "noRoleArn"
                      ELSE "ok"
        IN  lookup' = [reader |-> reader, secretName |-> m.SecretName, outcome |-> result,
                       roleArn |-> IF result = "ok" THEN got.Item.roleArn ELSE "",
                       userName |-> IF result = "ok" THEN UserNameOfItem(reader, got.Item) ELSE ""]
    /\ UNCHANGED <<table, written, handlerVars, concurrentVars>>

ProvisionInit ==
    /\ HandlerIdle
    /\ \E h \in HashKeys : table = [hashKey |-> h, items |-> {}]
    /\ written = <<>>
    /\ lookup = NoLookup
    /\ ConcurrentIdle

ProvisionNext ==
    \/ storeDynamoDBMapping
    \/ getRoleBySecretName

ProvisionSpec == ProvisionInit /\ [][ProvisionNext]_vars

-----------------------------------------------------------------------------
(* Several invocations of the handler at once.  Each invocation is a       *)
(* caller with a transport identity; its steps are the code between two    *)
(* awaits, and the steps of different invocations interleave freely.       *)

MaxInvocations == 2

Invocations == 1..MaxInvocations

(* Variant: the locals are declared at module level, one copy for all *)
ScopeOf_Module(i) == 0

(* The scope the locals of invocation i live in: roleArn, credentials and  *)
(* the services are declared inside the handler, results and nextToken     *)
(* inside getQueryResults, so every invocation has its own                 *)
ScopeOf(i) == i

NoFrame == [roleArn |-> "", credentials |-> NoCredentials, jobId |-> 0, results |-> <<>>]

Callers == {DevUserArn, SuperUserArn}

RoleOfCaller(i) == getRoleForIAMUser(req[i]).roleArn

(* The result pages the query service holds for its job n: a header row    *)
(* naming the job, a data row naming the role it ran as; no rows for an    *)
(* id that is not a job                                                    *)
JobPage(n, page) ==
    IF n \notin DOMAIN jobs THEN <<>>
    ELSE IF page = 1 THEN << [hasData |-> TRUE, Data |-> <<"job", ToString(n)>>] >>
    ELSE << [hasData |-> TRUE, Data |-> <<jobs[n].role>>] >>

Suspended(at, pending) == [at |-> at, pending |-> pending]

Local(i) == frames[ScopeOf(i)]

(* start .. await roleService.assumeRole(roleArn) *)
Enter(i) ==
    /\ ipc[i].at = "start"
    /\ LET role == RoleOfCaller(i)
       IN  /\ frames' = [frames EXCEPT ![ScopeOf(i)] = [NoFrame EXCEPT !.roleArn = role]]
           /\ ipc' = [ipc EXCEPT ![i] = Suspended("assumeRole", role)]
    /\ UNCHANGED <<req, jobs, out, handlerVars, provisionVars>>

(* credentials = <reply>; .. await client.send(StartQueryExecutionCommand) *)
Assumed(i) ==
    /\ ipc[i].at = "assumeRole"
    /\ LET creds == [NoCredentials EXCEPT !.forRole = ipc[i].pending, !.returned = TRUE,
                        !.accessKeyId = TRUE, !.secretAccessKey = TRUE, !.sessionToken = TRUE]
           frame == [Local(i) EXCEPT !.credentials = creds]
       IN  /\ frames' = [frames EXCEPT ![ScopeOf(i)] = frame]
           /\ jobs' = Append(jobs, [by |-> i, role |-> getClient(frame.credentials).forRole])
           /\ ipc' = [ipc EXCEPT ![i] = Suspended("startQuery", ToString(Len(jobs) + 1))]
    /\ UNCHANGED <<req, out, handlerVars, provisionVars>>

JobOf(id) == CHOOSE n \in 0..MaxInvocations : ToString(n) = id

(* queryExecutionId = <reply>; the wait; .. await the first result page *)
QuerySubmitted(i) ==
    /\ ipc[i].at = "startQuery"
    /\ LET n == JobOf(ipc[i].pending)
       IN  /\ frames' = [frames EXCEPT ![ScopeOf(i)] = [@ EXCEPT !.jobId = n, !.results = <<>>]]
           /\ ipc' = [ipc EXCEPT ![i] = Suspended("page1", ipc[i].pending)]
    /\ UNCHANGED <<req, jobs, out, handlerVars, provisionVars>>

(* results.push(<rows of the first page>); .. await the second page *)
FirstPage(i) ==
    /\ ipc[i].at = "page1"
    /\ frames' = [frames EXCEPT ![ScopeOf(i)] =
                    [@ EXCEPT !.results = Accumulate(@, JobPage(JobOf(ipc[i].pending), 1))]]
    /\ ipc' = [ipc EXCEPT ![i] = Suspended("page2", ToString(Local(i).jobId))]
    /\ UNCHANGED <<req, jobs, out, handlerVars, provisionVars>>

(* results.push(<rows of the second page>); return the response *)
LastPage(i) ==
    /\ ipc[i].at = "page2"
    /\ LET frame == [Local(i) EXCEPT !.results = Accumulate(@, JobPage(JobOf(ipc[i].pending), 2))]
       IN  /\ frames' = [frames EXCEPT ![ScopeOf(i)] = frame]
           /\ out' = [out EXCEPT ![i] = [done |-> TRUE, roleArn |-> frame.roleArn,
                                         forRole |-> frame.credentials.forRole,
                                         jobId |-> frame.jobId, data |-> frame.results]]
    /\ ipc' = [ipc EXCEPT ![i] = Suspended("done", "")]
    /\ UNCHANGED <<req, jobs, handlerVars, provisionVars>>

NoOut == [done |-> FALSE, roleArn |-> "", forRole |-> "", jobId |-> 0, data |-> <<>>]

ConcurrentInit ==
    /\ HandlerIdle
    /\ ProvisionIdle
    /\ req \in [Invocations -> Callers]
    /\ ipc = [i \in Invocations |-> Suspended("start", "")]
    /\ frames = [sc \in 0..MaxInvocations |-> NoFrame]
    /\ jobs = <<>>
    /\ out = [i \in Invocations |-> NoOut]

ConcurrentNext ==
    \E i \in Invocations :
        \/ Enter(i)
        \/ Assumed(i)
        \/ QuerySubmitted(i)
        \/ FirstPage(i)
        \/ LastPage(i)

ConcurrentSpec == ConcurrentInit /\ [][ConcurrentNext]_vars

-----------------------------------------------------------------------------
(* Properties *)

PresentedKey ==
    IF event.headers.lower # Absent THEN event.headers.lower ELSE event.headers.upper

KeyPresented == event.headers.lower # Absent \/ event.headers.upper # Absent

IdentityPresented ==
    \/ event.identity.userArn # Absent
    \/ (event.identity.accountId # "" /\ event.identity.user # "")

GrantComplete == event.grant.username # "" /\ event.grant.password # ""

Done == pc = "done"

(* C1: a response carries rows, and a result page is requested, only when *)
(* the last status read returned SUCCEEDED; after FAILED, CANCELLED or a   *)
(* timeout the caller gets success:false without rows, for both shapes.    *)
C1_RowsOnlyWhenSucceeded ==
    /\ (response.success \/ response.hasData \/ calls["fetch"] > 0 \/ pc = "getQueryResults")
          => lastStatus = "SUCCEEDED"
    /\ (Done /\ (lastStatus \in {"FAILED", "CANCELLED"} \/ timedOut))
          => /\ ~response.success
             /\ ~response.hasData
             /\ response.data = <<>>
             /\ calls["fetch"] = 0

C1_Witness ==
    /\ Done
    /\ lastStatus = "CANCELLED"
    /\ Shape(event.body) = "raw"
    /\ response.statusCode = 500
    /\ ~response.hasData

(* C2: whenever a credential is presented and has no match in the store   *)
(* or table of its strategy, the request ends with status 403.             *)
NoMatch ==
    \/ /\ authMethod = "IAM"
       /\ IAM_USER_TO_ROLE_MAP(extractIAMUserArn(event.identity)) = ""
    \/ /\ authMethod = "API_KEY"
       /\ variant = "directLookup"
       /\ calls["mapGet"] = 1
       /\ ~failedRead
       /\ ~DirectItem(PresentedKey).present
    \/ /\ authMethod = "API_KEY"
       /\ variant \in {"authService", "scanService"}
       /\ calls["vaultList"] = 1
       /\ ~failedRead
       /\ secretName = Absent

C2_NoMatchIsDenied == (Done /\ NoMatch) => response.statusCode = 403

(* C3: with several credential forms in one request a single branch       *)
(* resolves it, by the priority password grant > x-api-key > transport    *)
(* identity; the stores of the other branches are not read.               *)
C3_PriorityOrder ==
    /\ GrantComplete
          => /\ authMethod \in {None, "OAUTH"}
             /\ calls["vaultList"] = 0 /\ calls["vaultGet"] = 0 /\ calls["mapGet"] = 0
             /\ roleArn \notin {IamDevRole, IamSuperRole}
             /\ response.success => response.authMethod = "OAUTH"
    /\ (~GrantComplete /\ KeyPresented)
          => /\ authMethod \in {None, "API_KEY"}
             /\ calls["idp"] = 0
             /\ roleArn \notin {IamDevRole, IamSuperRole}
             /\ response.success => response.authMethod = "API_KEY"
    /\ (~GrantComplete /\ ~KeyPresented)
          => /\ authMethod \in {None, "IAM"}
             /\ calls["idp"] = 0
             /\ calls["vaultList"] = 0 /\ calls["vaultGet"] = 0 /\ calls["mapGet"] = 0

C3_Witness ==
    /\ Done
    /\ GrantComplete /\ KeyPresented /\ IdentityPresented
    /\ response.success
    /\ response.authMethod = "OAUTH"

(* C4: every request ends with a response; a failure at any stage is      *)
(* answered {success:false, error} with a status among 400, 401, 403, 500 *)
(* and success:true comes only with status 200.                            *)
C4_UniformEnvelope ==
    /\ Done <=> response # NoResponse
    /\ ~Done => ENABLED Next
    /\ Done => IF response.success
               THEN response.statusCode = 200 /\ response.error = <<>>
               ELSE /\ response.statusCode \in {400, 401, 403, 500}
                    /\ response.error # <<>>
                    /\ ~response.hasData

C4_Witness ==
    /\ Done
    /\ config = "missingEnv"
    /\ response.statusCode = 500
    /\ ~response.success

(* C5 as stated: a request without key, identity and complete grant is    *)
(* answered 401 "missing authentication" and no collaborator is called.    *)
NoCredential == ~KeyPresented /\ ~IdentityPresented /\ ~GrantComplete

C5_Original ==
    (Done /\ NoCredential)
        => /\ response.statusCode = 401
           /\ response.error = MissingAuthMsg
           /\ calls = NoCalls

(* C5 amended: such a request, when the environment is configured and its *)
(* body parses to a JSON object, is answered 401 "missing authentication" *)
(* and no collaborator is called.                                          *)
C5_MissingCredential ==
    (Done /\ NoCredential /\ config # "missingEnv" /\ event.body.kind = "object")
        => /\ response.statusCode = 401
           /\ ~response.success
           /\ response.error = MissingAuthMsg
           /\ calls = NoCalls

C5_Witness ==
    /\ Done
    /\ NoCredential
    /\ event.bearer
    /\ response.statusCode = 401

(* C6: the loop goes on only while the budget has not elapsed; when it    *)
(* has elapsed after a non-terminal read the wait ends with the timeout   *)
(* error: status 500, success:false, no page requested, no rows.          *)
C6_TimeoutEndsWait ==
    /\ (pc = "waitForQueryCompletion" /\ polls > 0)
          => elapsedMs - PollIntervalMs <= maxWaitSeconds * 1000
    /\ timedOut
          => /\ Done
             /\ elapsedMs > maxWaitSeconds * 1000
             /\ lastStatus \in {"QUEUED", "RUNNING"}
             /\ response.statusCode = 500
             /\ ~response.success
             /\ response.error = <<"Query execution timeout">>
             /\ ~response.hasData /\ response.data = <<>>
             /\ calls["fetch"] = 0

C6_Witness ==
    /\ timedOut
    /\ polls > maxWaitSeconds
    /\ ~onlyRunning
    /\ response.statusCode = 500

(* Reads one second apart: after a prompt first read every read follows   *)
(* the previous one by the sleep alone                                     *)
ExactSpacing == laterSlow = 0 /\ firstLat <= SmallLatencyMs

(* C7: with reads one second apart that all return RUNNING the timeout is  *)
(* raised on the 61st status read, not earlier and not later, and the      *)
(* response is success:false.                                              *)
C7_TimeoutAtRead61 ==
    (timedOut /\ onlyRunning /\ ExactSpacing)
        => /\ polls = maxWaitSeconds + 1
           /\ ~response.success

(* C8: the scan matches a secret only when the presented key equals the   *)
(* whole apiKey field of its payload, case included.                       *)
C8_ExactMatchOnly ==
    /\ Truthy(secretName) => (Truthy(matchedKey) /\ matchedKey = PresentedKey)
    /\ pc = "getRoleBySecretName"
          => /\ secrets[scanIdx].Name = secretName
             /\ secrets[scanIdx].apiKey = PresentedKey

IsProperPrefix(p, s) == Len(p) < Len(s) /\ SubSeq(s, 1, Len(p)) = p

C8_Witness ==
    /\ pc = "getRoleBySecretName"
    /\ \E k \in 1..Len(fetched) :
          /\ fetched[k].outcome = "ok"
          /\ IsProperPrefix(PresentedKey, secrets[fetched[k].idx].apiKey)
          /\ fetched[k].idx # scanIdx

(* C9: the scan reads the candidates in list order, stops at the first    *)
(* candidate whose embedded key equals the presented key, reads no payload *)
(* after it, and then reads the mapping store once, keyed by the matched   *)
(* secret's name.                                                          *)
C9_FirstMatchThenOneLookup ==
    /\ pc = "getRoleBySecretName"
          => /\ Len(fetched) > 0
             /\ fetched[Len(fetched)].idx = scanIdx
             /\ secrets[scanIdx].Name = secretName
             /\ \A k \in 1..(Len(fetched) - 1) :
                   /\ fetched[k].idx < fetched[k + 1].idx
                   /\ fetched[k].outcome # "noSecretString"
                         => secrets[fetched[k].idx].apiKey # PresentedKey
             /\ { fetched[k].idx : k \in 1..Len(fetched) }
                   = { i \in 1..scanIdx : Examined(secrets[i]) }
             /\ calls["vaultGet"] = Len(fetched)
             /\ calls["mapGet"] = 0
    /\ Truthy(secretName) => pc # "getSecretValue"
    /\ (variant \in {"authService", "scanService"} /\ calls["mapGet"] > 0)
          => /\ calls["mapGet"] = 1
             /\ Truthy(secretName)
             /\ mapKey = secretName
    /\ (variant \in {"authService", "scanService"} /\ credentials.returned)
          => calls["mapGet"] = 1

(* C10: when a collaborator read made during resolution fails as          *)
(* unreachable the request ends with status 500.                           *)
C10_UnreachableIs500 == (Done /\ failedRead) => response.statusCode = 500

(* The scan matched a secret and the mapping store, which answered, holds  *)
(* no item, or an item without roleArn, under the secret's name            *)
MatchedButUnmapped ==
    /\ variant \in {"authService", "scanService"}
    /\ Truthy(secretName)
    /\ calls["mapGet"] = 1
    /\ mapKey = secretName
    /\ ~MappingItem(secretName).present \/ MappingItem(secretName).roleArn = ""

BearerOnly == event.bearer /\ NoCredential

ResolverSteps ==
    {"start", "authenticateUser", "getUserInfo", "listSecrets", "getSecretValue",
     "getRoleBySecretName", "directGet"}

BrokerSteps == {"authAssumeRole", "assumeRole"}

ExecutorSteps == {"startQuery", "waitForQueryCompletion", "getQueryResults"}

(* C13: the calls of a request follow the pipeline order: the role is      *)
(* resolved before assumeRole is called, a complete credential set for     *)
(* that role is held before the query is submitted, the submit, the status *)
(* reads and the page fetches all use that credential set, and nothing     *)
(* runs once a stage has failed.                                           *)
C13_PipelineOrder ==
    /\ (calls["sts"] > 0 \/ pc \in BrokerSteps)
          => /\ roleArn # ""
             /\ pc \notin ResolverSteps
    /\ (calls["submit"] > 0 \/ pc \in ExecutorSteps)
          => /\ pc \notin ResolverSteps \cup BrokerSteps
             /\ calls["sts"] > 0
             /\ credentials.returned
             /\ credentials.forRole = roleArn
             /\ credentials.accessKeyId /\ credentials.secretAccessKey
             /\ credentials.sessionToken
    /\ usedCredentials \subseteq {credentials}
    /\ usedCredentials # {} <=> calls["submit"] > 0
    /\ (lastStatus # None \/ polls > 0 \/ calls["fetch"] > 0)
          => /\ calls["submit"] = 1
             /\ jobId # ""
    /\ calls["fetch"] > 0 => lastStatus = "SUCCEEDED"
    /\ Done => ~ENABLED Next

C13_Witness ==
    /\ Done
    /\ response.success
    /\ variant = "authService"
    /\ calls["vaultGet"] = 2 /\ calls["mapGet"] = 1 /\ calls["sts"] = 1
    /\ calls["submit"] = 1 /\ calls["fetch"] = 2

(* The reply of the authority carries all three fields *)
ReplyComplete ==
    /\ stsReply.reached /\ stsReply.Credentials
    /\ stsReply.AccessKeyId /\ stsReply.SecretAccessKey /\ stsReply.SessionToken

(* C14: assumeRole returns a credential set only for a reply that carries  *)
(* access key id, secret access key and session token; a reply without     *)
(* credentials or without one of the three ends the request with status    *)
(* 500 and no query is submitted.                                          *)
C14_CompleteOrBrokerFailure ==
    /\ credentials.returned
          => /\ ReplyComplete
             /\ credentials.accessKeyId /\ credentials.secretAccessKey
             /\ credentials.sessionToken
    /\ (calls["sts"] > 0 /\ ~ReplyComplete)
          => /\ Done
             /\ ~credentials.returned
             /\ response.statusCode = 500
             /\ ~response.success
             /\ response.error[1] = "Failed to assume role: "
             /\ calls["submit"] = 0
             /\ usedCredentials = {}

C14_Witness ==
    /\ Done
    /\ calls["sts"] = 1
    /\ stsReply.Credentials
    /\ stsReply.AccessKeyId /\ stsReply.SecretAccessKey /\ ~stsReply.SessionToken
    /\ response.error = <<"Failed to assume role: ", "Incomplete credentials returned">>

(* C15: assumeRole is called at most once in a request, by authenticate on *)
(* the API-key branch or by the handler on the other branches, and a       *)
(* failed call is not repeated.                                            *)
C15_AtMostOneAssumeRole ==
    /\ calls["sts"] <= 1
    /\ (calls["sts"] = 1 /\ ~credentials.returned) => Done
    /\ (calls["sts"] = 1 /\ credentials.returned) => pc \notin BrokerSteps
    /\ pc = "authAssumeRole" => variant = "authService"
    /\ pc = "assumeRole" => variant # "authService"

C15_Witness ==
    /\ Done
    /\ response.success
    /\ variant = "authService"
    /\ calls["sts"] = 1

(* The rows of the first n pages of the result set, in page order *)
RECURSIVE RowsUpTo(_)
RowsUpTo(n) == IF n = 0 THEN <<>> ELSE RowsUpTo(n - 1) \o pages[n]

(* C16: getQueryResults asks for the first page without a cursor and for   *)
(* each following page with the cursor the previous page returned, stops   *)
(* at the page that returns no cursor, and returns the rows of all pages   *)
(* in page order, none dropped, repeated or moved.                         *)
C16_AllPagesInOrder ==
    /\ calls["fetch"] = Len(cursors)
    /\ Len(cursors) <= Len(pages)
    /\ \A k \in 1..Len(cursors) :
          cursors[k] = (IF k = 1 THEN "" ELSE ServePage(pages, cursors[k - 1]).NextToken)
    /\ (pc = "getQueryResults" /\ calls["fetch"] > 0)
          => /\ nextToken # ""
             /\ Len(results) = Len(RowsUpTo(Len(cursors)))
             /\ \A i \in 1..Len(results) :
                   results[i] = rowData(RowsUpTo(Len(cursors))[i])
    /\ (Done /\ response.success)
          => /\ Len(cursors) = Len(pages)
             /\ Len(response.data) = Len(RowsUpTo(Len(pages)))
             /\ \A i \in 1..Len(response.data) :
                   response.data[i] = rowData(RowsUpTo(Len(pages))[i])

C16_Witness ==
    /\ Done
    /\ response.success
    /\ Len(pages) = 2
    /\ pages[1] = <<RowD, RowE>>
    /\ pages[2] = <<RowH>>
    /\ cursors = <<"", CursorOf(2)>>
    /\ Len(response.data) = 3

(* SELECT * FROM "<database>"."<tableName>" LIMIT <limit> *)
BrowseSql(database, tableName, limit) ==
    <<"SELECT * FROM \"", database, "\".\"", tableName, "\" LIMIT ", ToString(limit)>>

Submitted == calls["submit"] > 0

TableBrowse == event.body.query = "" /\ event.body.tableName # ""

RawQuery == event.body.query # ""

(* C17 as stated: the SQL submitted for the table-browse shape is          *)
(* SELECT * FROM "<database>"."<tableName>" LIMIT <limit> with the limit   *)
(* of the body, and for the raw-query shape the query text of the body.    *)
C17_Original ==
    /\ (Submitted /\ TableBrowse)
          => queryString = BrowseSql("db", event.body.tableName, event.body.limit)
    /\ (Submitted /\ RawQuery) => queryString = <<event.body.query>>

(* C17 amended: as stated, except that a limit of 0 (like a missing limit) *)
(* is replaced by 100 before the SQL is built.                             *)
C17_SubmittedSql ==
    /\ (Submitted /\ TableBrowse /\ event.body.limit # 0)
          => queryString = BrowseSql("db", event.body.tableName, event.body.limit)
    /\ (Submitted /\ TableBrowse /\ event.body.limit = 0)
          => queryString = BrowseSql("db", event.body.tableName, 100)
    /\ (Submitted /\ RawQuery) => queryString = <<event.body.query>>
    /\ (Done /\ response.success) => response.query = queryString
    /\ ~Submitted => queryString = <<>>

C17_Witness ==
    /\ Done
    /\ response.success
    /\ authMethod = "API_KEY"
    /\ PresentedKey = k1
    /\ queryString = <<"SELECT * FROM \"", "db", "\".\"", "members", "\" LIMIT ", "5">>

BothShapes == event.body.query # "" /\ event.body.tableName # ""

(* C18: a body with both a query and a tableName is rejected with status   *)
(* 400 and no query is submitted for it.                                   *)
C18_BothShapesRejected ==
    BothShapes
        => /\ ~Submitted
           /\ (Done /\ credentials.returned) => response.statusCode = 400

LimitOutOfRange == event.body.limit < 1 \/ event.body.limit > 1000

(* C19: a table-browse request whose limit is below 1 or above 1000 is     *)
(* rejected with status 400 and no query with that limit is submitted.     *)
C19_LimitOutOfRangeRejected ==
    (TableBrowse /\ LimitOutOfRange)
        => /\ ~Submitted
           /\ (Done /\ credentials.returned) => response.statusCode = 400

(* The groups the guide maps to the super-user role *)
ElevatedGroups == {"Admins", "SuperUsers", "DataEngineers"}

(* C20: a user whose groups include an elevated-access group (Admins,      *)
(* SuperUsers, DataEngineers) is resolved to the super-user role whatever  *)
(* other groups the user has.                                              *)
C20_ElevatedGroupWins ==
    (authMethod = "OAUTH" /\ roleArn # "" /\ userGroups \cap ElevatedGroups # {})
        => roleArn = lfSuperRoleArn

(* The user information of the password grant was retrieved *)
UserInfoRetrieved == authMethod = "OAUTH" /\ username # ""

(* The groups mapUserToLFRole gives the super-user role to *)
AdminGroups == {"Admins", "Admin"}

GrantRejected ==
    /\ authMethod = "OAUTH"
    /\ calls["idp"] = 1
    /\ Done
    /\ ~failedRead

(* C22: a password grant that the identity provider rejects, or answers    *)
(* without an AuthenticationResult, ends with status 401 and               *)
(* success:false; assumeRole is not called and no query is submitted.      *)
C22_RejectedGrantIs401 ==
    GrantRejected
        => /\ response.statusCode = 401
           /\ ~response.success
           /\ calls["sts"] = 0
           /\ ~Submitted

C24_TimeoutSendsNoStop ==
    /\ calls["stop"] = 0
    /\ timedOut
          => /\ jobState = lastStatus
             /\ jobState \in {"QUEUED", "RUNNING"}
             /\ calls["submit"] = 1

C24_Witness ==
    /\ timedOut
    /\ Done
    /\ jobState = "RUNNING"
    /\ response.error = <<"Query execution timeout">>
    /\ calls["stop"] = 0

(* C25: in a successful table-browse response with rows, rowCount is the   *)
(* number of rows of data less one (the header row).                       *)
C25_RowCountExcludesHeader ==
    (Done /\ response.success /\ Shape(event.body) = "table" /\ response.data # <<>>)
        => response.rowCount = Len(response.data) - 1

C25_Witness ==
    /\ Done
    /\ response.success
    /\ Shape(event.body) = "table"
    /\ Len(response.data) = 3
    /\ response.rowCount = 2

(* The name ends with -<environment> *)
OwnEnvironment(name) ==
    /\ Len(name) >= 2
    /\ name[Len(name) - 1] = "-"
    /\ name[Len(name)] = environment

(* The presented key is embedded in listed secrets, all of them named for  *)
(* another environment                                                     *)
KeyOnlyElsewhere ==
    /\ \E i \in 1..Len(secrets) : secrets[i].apiKey = PresentedKey
    /\ \A i \in 1..Len(secrets) :
          secrets[i].apiKey = PresentedKey
              => Truthy(secrets[i].Name) /\ ~OwnEnvironment(secrets[i].Name)

(* C27: SecretScan requests the payload only of secrets whose name ends    *)
(* with -<environment>; a key embedded only in secrets of another          *)
(* environment never resolves: 403, and those payloads are never fetched.  *)
C27_OnlyOwnEnvironment ==
    /\ \A k \in 1..Len(fetched) : OwnEnvironment(secrets[fetched[k].idx].Name)
    /\ Truthy(secretName) => OwnEnvironment(secretName)
    /\ (authMethod = "API_KEY" /\ KeyOnlyElsewhere)
          => /\ roleArn = ""
             /\ secretName = Absent
             /\ calls["sts"] = 0
             /\ Done => response.statusCode = 403

C27_Witness ==
    /\ Done
    /\ KeyOnlyElsewhere
    /\ Len(secrets) = 2
    /\ Len(fetched) = 1
    /\ response.statusCode = 403

(* C28: a terminal state that a status read returns is honoured even when *)
(* the budget has run out by then: SUCCEEDED goes on to the results,       *)
(* FAILED and CANCELLED end with their own error; the timeout is raised    *)
(* only right after a read that returned a non-terminal state.             *)
C28_TerminalReadHonoured ==
    /\ timedOut => ~IsTerminal(lastStatus)
    /\ lateTerminal
          => /\ ~timedOut
             /\ IsTerminal(lastStatus)
             /\ lastStatus = "SUCCEEDED" => pc = "getQueryResults"
             /\ lastStatus # "SUCCEEDED"
                   => /\ Done
                      /\ response.error = <<"Query failed with status: ", lastStatus>>
    /\ (Done /\ lastStatus = "SUCCEEDED") => response.error # <<"Query execution timeout">>

C28_Witness ==
    /\ lateTerminal
    /\ lastStatus = "SUCCEEDED"
    /\ pc = "getQueryResults"
    /\ calls["fetch"] = 0

(* Every payload read of the scan so far succeeded *)
AllFetchedOk == \A k \in 1..Len(fetched) : fetched[k].outcome = "ok"

(* A secret of the current environment that embeds the presented key and   *)
(* whose name has a mapping row with a roleArn                             *)
MappedMatch(entry) ==
    /\ Truthy(entry.Name)
    /\ OwnEnvironment(entry.Name)
    /\ entry.apiKey = PresentedKey
    /\ MappingItem(entry.Name).present
    /\ MappingItem(entry.Name).roleArn # ""

ScanResolver == authMethod = "API_KEY" /\ variant \in {"authService", "scanService"}

(* C29 as stated: if the vault holds a current-environment secret that     *)
(* embeds the presented key and has a mapping row with a roleArn, and      *)
(* every collaborator call succeeds, the request resolves to a role of     *)
(* such a secret and is not denied, however many other secrets there are   *)
(* and in whatever order they are listed.                                  *)
C29_Original ==
    (/\ ScanResolver
     /\ calls["vaultList"] = 1
     /\ ~failedRead
     /\ AllFetchedOk
     /\ \E i \in 1..Len(vault) : MappedMatch(vault[i]))
        => /\ Done => response.statusCode # 403
           /\ pc = "getRoleBySecretName"
                 => /\ MappingItem(secretName).present
                    /\ MappingItem(secretName).roleArn # ""

(* The listed entries of the current environment that embed the key *)
ListedMatches ==
    { i \in 1..Len(secrets) :
        /\ Truthy(secrets[i].Name)
        /\ OwnEnvironment(secrets[i].Name)
        /\ secrets[i].apiKey = PresentedKey }

(* C29: the scan sees the first MaxResults entries of the one list call.   *)
(* If every call succeeds, the request resolves through the first listed   *)
(* current-environment secret that embeds the key, whatever else is listed *)
(* and in whatever order: to the roleArn of its mapping row when it has    *)
(* one; it is denied only if no listed secret embeds the key.              *)
C29_FirstListedMatchResolves ==
    /\ Len(secrets) <= MaxResults
    /\ Len(secrets) <= Len(vault)
    /\ \A i \in 1..Len(secrets) : secrets[i] = vault[i]
    /\ (ScanResolver /\ AllFetchedOk /\ ~failedRead /\ pc = "getRoleBySecretName")
          => /\ ListedMatches # {}
             /\ \A i \in ListedMatches : scanIdx <= i
             /\ secretName = secrets[scanIdx].Name
    /\ (ScanResolver /\ AllFetchedOk /\ ~failedRead /\ Done /\ response.statusCode = 403)
          => ListedMatches = {}
    /\ (/\ ScanResolver
        /\ calls["mapGet"] = 1
        /\ ~failedRead
        /\ MappingItem(secretName).present
        /\ MappingItem(secretName).roleArn # "")
          => /\ roleArn = MappingItem(secretName).roleArn
             /\ response.statusCode # 403

C29_Witness ==
    /\ ScanResolver
    /\ pc = "getRoleBySecretName"
    /\ AllFetchedOk
    /\ Len(secrets) = 2
    /\ secrets[1].apiKey = PresentedKey
    /\ ~OwnEnvironment(secrets[1].Name)
    /\ MappedMatch(secrets[2])
    /\ secretName = secrets[2].Name

(* The last mapping storeDynamoDBMapping stored for the secret name *)
StoredFor(name) == { k \in 1..Len(written) : written[k].SecretName = name }

LastStored(name) == written[CHOOSE k \in StoredFor(name) : \A j \in StoredFor(name) : j <= k]

(* C30: a mapping that storeDynamoDBMapping stored is found by             *)
(* getRoleBySecretName for the same secret name and table, with the same   *)
(* roleArn and userName.                                                   *)
C30_WrittenMappingIsFound ==
    (lookup.reader = "ApiKeyMappingService" /\ StoredFor(lookup.secretName) # {})
        => /\ lookup.outcome = "ok"
           /\ lookup.roleArn = LastStored(lookup.secretName).RoleArn
           /\ lookup.userName = LastStored(lookup.secretName).UserName

====
